---- MODULE Spec2Model ----
(***************************************************************************)
(* teuthology.orchestra.run: running a command on a remote host over an    *)
(* SSH client, pumping its three streams with greenlets, and resolving     *)
(* its exit status (RemoteProcess, run, wait), with the unit-test report   *)
(* scan that _raise_for_status performs on a failed command.               *)
(***************************************************************************)
EXTENDS Integers, Sequences, FiniteSets, TLC

(***************************************************************************)
(* Bounds of the model.                                                    *)
(***************************************************************************)
\* number of RemoteProcess handles
NumProcs == 2
\* largest positive exit code a remote command reports
MaxExit == 2
\* number of wait()/poll()/finished calls a caller issues directly
MaxCalls == 2
\* number of entries a remote directory listing holds
MaxFiles == 2
\* largest number of safe_while tries a batch timeout yields
MaxTries == 2

Procs == 1..NumProcs

(***************************************************************************)
(* Python values.  None is the empty tuple and a present value v is <<v>>, *)
(* so that an optional integer, string or message has one shape.           *)
(***************************************************************************)
None == <<>>
Some(v) == <<v>>

PIPE == "PIPE"

\* paramiko's Channel.exit_status before/without an exit-status message
NoExitStatus == -1

ExitCodes == (0..MaxExit) \cup {NoExitStatus}

\* stream arguments of run(): the PIPE sentinel, or anything else (None, a
\* string, a file object), which the code treats alike: 'is not PIPE'
StreamArgs == {PIPE, "None"}

\* RemoteProcess.deadlock_warning
deadlock_warning == "Using PIPE for %s without wait=False would deadlock"

\* run(args=...) with args a string: quote() returns it unchanged and
\* RemoteProcess.command is that string (no cwd)
Args(h) == IF h = 1 THEN "cmd-1" ELSE "cmd-n"

quote(args) == args

Label(h) == IF h = 1 THEN "label-1" ELSE "label-n"

\* transport.getpeername()[0]
PeerHost(h) == IF h = 1 THEN "peer-1" ELSE "peer-n"

\* run(name=...): the caller of the first handle leaves the name out
NameArg(h) == IF h = 1 THEN None ELSE Some("node-n")

(***************************************************************************)
(* Exceptions, as records of the keyword arguments they are raised with.   *)
(***************************************************************************)
Exc(kind, command, node, exitstatus, label, message) ==
    [kind |-> kind, command |-> command, node |-> node,
     exitstatus |-> exitstatus, label |-> label, message |-> message]

NoError == Exc("none", None, None, None, None, None)

ConnectionLostError(command, node) ==
    Exc("ConnectionLostError", Some(command), node, None, None, None)

CommandCrashedError(command) ==
    Exc("CommandCrashedError", Some(command), None, None, None, None)

CommandFailedError(command, exitstatus, node, label) ==
    Exc("CommandFailedError", Some(command), node, exitstatus, label, None)

UnitTestError(exitstatus, node, label, message) ==
    Exc("UnitTestError", None, node, exitstatus, label, Some(message))

RuntimeError(message) ==
    Exc("RuntimeError", None, None, None, None, Some(message))

\* an exception of the transport: socket.error, paramiko.SSHException
SocketError == Exc("socket.error", None, None, None, None, None)

\* the exception a stream pump ended with, re-raised by Greenlet.get()
PumpError(stream) ==
    Exc("PumpError", None, None, None, None, Some(<<stream>>))

(***************************************************************************)
(* Strings of report messages are sequences of tokens.                     *)
(***************************************************************************)
NL == "\n"

\* the log-capture marker 'begin captured'
Marker == <<"begin captured">>

RECURSIVE FindFrom(_, _, _)
FindFrom(s, sub, i) ==
    IF i + Len(sub) > Len(s) + 1 THEN -1
    ELSE IF SubSeq(s, i, i + Len(sub) - 1) = sub THEN i - 1
    ELSE FindFrom(s, sub, i + 1)

\* str.find: 0-based index of the first occurrence, or -1
Find(s, sub) == FindFrom(s, sub, 1)

\* s[:k] with Python's meaning of a negative k
SliceTo(s, k) ==
    IF k >= 0 THEN SubSeq(s, 1, IF k < Len(s) THEN k ELSE Len(s))
    ELSE SubSeq(s, 1, IF Len(s) + k > 0 THEN Len(s) + k ELSE 0)

\* str.replace("\n", " ")
ReplaceNL(s) == [i \in 1..Len(s) |-> IF s[i] = NL THEN " " ELSE s[i]]

\* dict.get / Element.get with a default
GetOr(opt, default) == IF opt = None THEN default ELSE opt[1]

(***************************************************************************)
(* The remote report files, as the scan reads them.  A read of a file is   *)
(* what exec_command('cat <file>') and etree.parse make of it: st is       *)
(* "exec_error" (exec_command raised), "no_stdout" (a false stdout),       *)
(* "malformed" (etree.parse raised) or "ok" with the document's testcase   *)
(* elements in document order.  A testcase has optional name and classname *)
(* attributes and child elements, each a tag with an optional message.     *)
(***************************************************************************)
Child(tag, message) == [tag |-> tag, message |-> message]

Testcase(name, classname, children) ==
    [name |-> name, classname |-> classname, children |-> children]

Read(st, cases) == [st |-> st, cases |-> cases]

TcPass == Testcase(Some("t0"), Some("s0"), <<Child("system-out", None)>>)

TcFailure ==
    Testcase(Some("t1"), Some("s1"),
             <<Child("system-out", None),
               Child("failure", Some(<<"boom", NL, "x">> \o Marker \o <<"stdout">>))>>)

TcFailurePlain ==
    Testcase(Some("t2"), Some("s1"), <<Child("failure", Some(<<"bad", "y">>))>>)

TcError == Testcase(None, None, <<Child("error", None)>>)

FileReads ==
    { Read("exec_error", <<>>), Read("no_stdout", <<>>), Read("malformed", <<>>),
      Read("ok", <<>>), Read("ok", <<TcPass>>),
      Read("ok", <<TcPass, TcFailure>>), Read("ok", <<TcFailurePlain, TcFailure>>),
      Read("ok", <<TcError>>) }

\* what a scan returns: it raised, or it returned val (None or a message)
Raised == [raised |-> TRUE, val |-> None]
Returned(val) == [raised |-> FALSE, val |-> val]

IsFault(child) == child.tag \in {"failure", "error"}

HasFault(tc) == \E i \in 1..Len(tc.children) : IsFault(tc.children[i])

\* tree.xpath('.//failure/.. | .//error/..')
FailedTestcases(cases) == SelectSeq(cases, HasFault)

\* the first child of the testcase that is a failure or an error
FirstFault(tc) ==
    tc.children[CHOOSE i \in 1..Len(tc.children) :
                    /\ IsFault(tc.children[i])
                    /\ \A j \in 1..(i - 1) : ~IsFault(tc.children[j])]

Upper(tag) == IF tag = "failure" THEN "FAILURE" ELSE "ERROR"

\* reason[:reason.find('begin captured')]
Truncate(reason) == SliceTo(reason, Find(reason, Marker))

\* the message parse_xml builds for the first failed testcase
Testcase1Msg(tc) ==
    LET casename  == GetOr(tc.name, "test-name")
        suitename == GetOr(tc.classname, "suite-name")
        child     == FirstFault(tc)
        reason    == Truncate(GetOr(child.message,
                                    <<"NO MESSAGE FOUND IN XML FILE; CHECK LOGS.">>))
    IN  <<Upper(child.tag), ": Test '", casename, "' of '", suitename, "' because ">>
            \o reason

parse_xml(xmlfile, read) ==
    IF xmlfile = "" THEN Returned(None)
    ELSE IF read.st \in {"exec_error", "malformed"} THEN Raised
    ELSE IF read.st = "no_stdout"
         THEN Returned(Some(<<"XML output not found at '", xmlfile, "'!">>))
    ELSE LET failed_testcases == FailedTestcases(read.cases)
         IN  IF Len(failed_testcases) = 0 THEN Returned(None)
             ELSE Returned(Some(ReplaceNL(<<"Some testcases did not pass. ">>
                                           \o Testcase1Msg(failed_testcases[1]))))

(***************************************************************************)
(* Report paths: "" (none), a directory (last character "/"), a file with  *)
(* the extension .xml, or any other file.                                  *)
(***************************************************************************)
XmlPaths == {"", "dir/", "report.xml", "report.log"}

IsDirPath(p) == p = "dir/"

IsXmlPath(p) == p = "report.xml"

\* an entry of the listing 'ls -d <dir>*.xml': a file name and what reading it
\* gives; the name is "" for the empty string split('\n') leaves at the end
Entry(path, read) == [path |-> path, read |-> read]

\* the reads of the files of a listing: one that raises, one without a failed
\* testcase and two with different first failures
ListedReads ==
    { Read("malformed", <<>>), Read("ok", <<TcPass>>),
      Read("ok", <<TcPass, TcFailure>>), Read("ok", <<TcError>>) }

Entries ==
    {Entry("", Read("ok", <<>>))} \cup {Entry("dir/a.xml", r) : r \in ListedReads}

SeqsUpTo(S, n) == UNION {[1..k -> S] : k \in 0..n}

\* the remote file system a scan of path meets: whether listing works, the
\* listing, and for a file path the read of that file
RemoteFS(p) ==
    IF IsDirPath(p)
    THEN {[ls_ok |-> FALSE, files |-> <<>>]}
         \cup {[ls_ok |-> TRUE, files |-> fs] : fs \in SeqsUpTo(Entries, MaxFiles)}
    ELSE {[ls_ok |-> TRUE, files |-> <<Entry(p, r)>>] : r \in FileReads}

\* the loop 'for file in xml_files' from entry i on
RECURSIVE ScanFrom(_, _)
ScanFrom(files, i) ==
    IF i > Len(files) THEN Returned(None)
    ELSE LET error == parse_xml(files[i].path, files[i].read)
         IN  IF error.raised THEN Raised
             ELSE IF error.val # None THEN error
             ELSE ScanFrom(files, i + 1)

find_unittest_error(xmlfile_path, fs) ==
    IF xmlfile_path = ""
    THEN Returned(Some(<<"No XML file path was passed to process!">>))
    ELSE IF IsDirPath(xmlfile_path)
         THEN IF fs.ls_ok THEN ScanFrom(fs.files, 1) ELSE Raised
    ELSE IF IsXmlPath(xmlfile_path)
         THEN parse_xml(xmlfile_path, fs.files[1].read)
    ELSE Returned(None)


(***************************************************************************)
(* State.                                                                  *)
(***************************************************************************)
VARIABLES
    self,        \* per handle: the arguments of run() and the fields set in __init__
    rpc,         \* per handle: where run() stands
    transport,   \* per handle: client.get_transport(): "active", "inactive", "absent"
    chan,        \* per handle: the channel of the command
    greenlets,   \* per handle: RemoteProcess.greenlets, the pumps in spawn order
    returncode,  \* per handle: RemoteProcess.returncode (= exitstatus)
    call,        \* the method of a handle the caller is in
    res,         \* per handle: how the last call on it ended
    ncalls,      \* calls the caller issued directly
    batch,       \* the module-level wait(processes, timeout)
    scanner,     \* a UnitTestScanner and its get_error_msg call
    pump         \* a stdin pump: copy_and_close(src, KludgeFile(stdin))

vars == <<self, rpc, transport, chan, greenlets, returncode, call, res, ncalls, batch,
          scanner, pump>>

\* the handle a single caller works with
Solo == {1}

SelfOf(check_status, unittest_xml, stdin, stdout, stderr, wait, name, hostname, h) ==
    [check_status |-> check_status, unittest_xml |-> unittest_xml,
     stdin |-> stdin, stdout |-> stdout, stderr |-> stderr,
     wait |-> wait, name |-> name, hostname |-> hostname,
     command |-> quote(Args(h)), label |-> Label(h)]

\* a handle not constructed yet
Blank(h) == SelfOf(TRUE, "", "None", "None", "None", TRUE, None, "", h)

\* issued: exec_command was called for the command; ready: exit_status_ready();
\* exit_status: what recv_exit_status() returns; reads: calls of
\* recv_exit_status(); scans: calls of find_unittest_error on this client
NewChan == [issued |-> FALSE, ready |-> FALSE, exit_status |-> NoExitStatus,
            reads |-> 0, scans |-> 0]

Pump(stream) == [stream |-> stream, st |-> "running"]

Idle == [op |-> "idle", h |-> 0, pc |-> "", i |-> 0, status |-> None, from |-> ""]

\* what find_unittest_error gave a call, when the call reached it
NoScan == [ran |-> FALSE, raised |-> FALSE, val |-> None]

\* how a call ended: the method, what it returned (ret, or fin for finished),
\* the exception it raised, and the scan it made
Outcome(op, ret, fin, err, scan) ==
    [op |-> op, ret |-> ret, fin |-> fin, err |-> err, scan |-> scan]

NoOutcome == Outcome("none", None, FALSE, NoError, NoScan)

BatchOff == [pc |-> "off", tries |-> 0, not_ready |-> <<>>, snap |-> <<>>,
             k |-> 0, waited |-> <<>>, exhausted |-> FALSE, err |-> NoError]

\* no scanner constructed
ScannerOff == [pc |-> "none"]

\* no stdin pump followed
PumpOff == [pc |-> "none"]

TransportStates == {"active", "inactive", "absent"}

Init ==
    /\ self = [h \in Procs |-> Blank(h)]
    /\ rpc = [h \in Procs |-> "new"]
    /\ transport \in {t \in [Procs -> TransportStates] :
                         \A h \in Procs \ Solo : t[h] = "active"}
    /\ chan = [h \in Procs |-> NewChan]
    /\ greenlets = [h \in Procs |-> <<>>]
    /\ returncode = [h \in Procs |-> None]
    /\ call = Idle
    /\ res = [h \in Procs |-> NoOutcome]
    /\ ncalls = 0
    /\ batch = BatchOff
    /\ scanner = ScannerOff
    /\ pump = PumpOff

(***************************************************************************)
(* run(): lines 509-532.                                                   *)
(***************************************************************************)
SetupSteps == {"execute", "setup_stdin", "setup_stderr", "setup_stdout"}

\* 'if name is None: name = host'
Hostname(name, host) == IF name = None THEN host ELSE name[1]

\* transport.getpeername() can fail with socket.error on a dead transport
PeernameFails(tr) == IF tr = "active" THEN {FALSE} ELSE {FALSE, TRUE}

\* exec_command can fail on a dead transport
ExecFails(tr) == IF tr = "active" THEN {FALSE} ELSE {FALSE, TRUE}

\* run() up to the construction of the RemoteProcess
Run(h, check_status, unittest_xml, stdin, stdout, stderr, wait, name) ==
    /\ rpc[h] = "new"
    /\ call = Idle
    /\ \/ /\ transport[h] = "absent"
          /\ rpc' = [rpc EXCEPT ![h] = "raised"]
          /\ res' = [res EXCEPT ![h] =
                        Outcome("run", None, FALSE,
                                ConnectionLostError(quote(Args(h)), name), NoScan)]
          /\ UNCHANGED self
       \/ /\ transport[h] # "absent"
          /\ \E fails \in PeernameFails(transport[h]) :
                IF fails
                THEN /\ rpc' = [rpc EXCEPT ![h] = "raised"]
                     /\ res' = [res EXCEPT ![h] =
                                   Outcome("run", None, FALSE,
                                           ConnectionLostError(quote(Args(h)), name),
                                           NoScan)]
                     /\ UNCHANGED self
                ELSE /\ rpc' = [rpc EXCEPT ![h] = "execute"]
                     /\ self' = [self EXCEPT ![h] =
                                    SelfOf(check_status, unittest_xml, stdin, stdout,
                                           stderr, wait, name,
                                           Hostname(name, PeerHost(h)), h)]
                     /\ UNCHANGED res
    /\ UNCHANGED <<transport, chan, greenlets, returncode, call, ncalls, batch, scanner, pump>>

\* RemoteProcess.execute
Execute(h) ==
    /\ rpc[h] = "execute"
    /\ \E fails \in ExecFails(transport[h]) :
          IF fails
          THEN /\ rpc' = [rpc EXCEPT ![h] = "raised"]
               /\ res' = [res EXCEPT ![h] = Outcome("run", None, FALSE, SocketError, NoScan)]
               /\ UNCHANGED chan
          ELSE /\ rpc' = [rpc EXCEPT ![h] = "setup_stdin"]
               /\ chan' = [chan EXCEPT ![h].issued = TRUE]
               /\ UNCHANGED res
    /\ UNCHANGED <<self, transport, greenlets, returncode, call, ncalls, batch, scanner, pump>>

\* a stream setup that spawns nothing
SpawnsPumpNever(stream_obj) == FALSE

\* 'stream_obj is not PIPE': a pump is spawned
SpawnsPump(stream_obj) == stream_obj # PIPE

\* setup_stdin without its deadlock check
StdinDeadlockNever(stream_obj, wait) == FALSE

\* 'elif self._wait: raise RuntimeError(...)' of setup_stdin
StdinDeadlock(stream_obj, wait) == stream_obj = PIPE /\ wait

\* 'elif self._wait: raise RuntimeError(...)' of setup_output_stream
OutputDeadlock(stream_obj, wait) == stream_obj = PIPE /\ wait

SetupStream(h, at, stream_name, stream_obj, deadlock, next) ==
    /\ rpc[h] = at
    /\ IF SpawnsPump(stream_obj)
       THEN /\ greenlets' = [greenlets EXCEPT ![h] = Append(@, Pump(stream_name))]
            /\ rpc' = [rpc EXCEPT ![h] = next]
            /\ UNCHANGED res
       ELSE IF deadlock
       THEN /\ rpc' = [rpc EXCEPT ![h] = "raised"]
            /\ res' = [res EXCEPT ![h] =
                          Outcome("run", None, FALSE,
                                  RuntimeError(<<deadlock_warning, stream_name>>),
                                  NoScan)]
            /\ UNCHANGED greenlets
       ELSE /\ rpc' = [rpc EXCEPT ![h] = next]
            /\ UNCHANGED <<greenlets, res>>
    /\ UNCHANGED <<self, transport, chan, returncode, call, ncalls, batch, scanner, pump>>

\* RemoteProcess.setup_stdin, called by run()
SetupStdin(h) ==
    SetupStream(h, "setup_stdin", "stdin", self[h].stdin,
                StdinDeadlock(self[h].stdin, self[h].wait), "setup_stderr")

\* r.setup_output_stream(stderr, 'stderr', quiet)
SetupStderr(h) ==
    SetupStream(h, "setup_stderr", "stderr", self[h].stderr,
                OutputDeadlock(self[h].stderr, self[h].wait), "setup_stdout")

\* r.setup_output_stream(stdout, 'stdout', quiet)
SetupStdout(h) ==
    SetupStream(h, "setup_stdout", "stdout", self[h].stdout,
                OutputDeadlock(self[h].stdout, self[h].wait), "run_wait")

(***************************************************************************)
(* The environment: the remote command, the transport and the pumps.       *)
(***************************************************************************)
\* the environment is followed while a caller can still observe it: not after
\* run() raised (the handle is lost), nor after the caller's last call or the
\* end of the module-level wait()
Observed(h) ==
    /\ rpc[h] # "raised"
    /\ ~(call = Idle /\ rpc[h] = "returned" /\ batch.pc = "off" /\ ncalls >= MaxCalls)
    /\ batch.pc \notin {"done", "raised"}

\* the command ends: the channel gets an exit status, or is closed without
\* one (a signal, a lost connection) and keeps paramiko's -1
ProcessExits(h) ==
    /\ Observed(h)
    /\ chan[h].issued
    /\ ~chan[h].ready
    /\ \E code \in ExitCodes :
          chan' = [chan EXCEPT ![h].ready = TRUE, ![h].exit_status = code]
    /\ UNCHANGED <<self, rpc, transport, greenlets, returncode, call, res, ncalls, batch, scanner, pump>>

TransportDown(h) ==
    /\ Observed(h)
    /\ transport[h] = "active"
    /\ rpc[h] # "new"
    /\ \E t \in {"inactive", "absent"} : transport' = [transport EXCEPT ![h] = t]
    /\ UNCHANGED <<self, rpc, chan, greenlets, returncode, call, res, ncalls, batch, scanner, pump>>

\* a pump (copy_and_close, copy_file_to) runs to its end or raises; greenlets
\* run only while the caller is not inside run()'s straight-line setup
PumpEnds(h, i) ==
    /\ Observed(h)
    /\ i \in 1..Len(greenlets[h])
    /\ greenlets[h][i].st = "running"
    /\ \A g \in Procs : rpc[g] \notin SetupSteps
    /\ \E st \in {"done", "failed"} :
          greenlets' = [greenlets EXCEPT ![h][i].st = st]
    /\ UNCHANGED <<self, rpc, transport, chan, returncode, call, res, ncalls, batch, scanner, pump>>


(***************************************************************************)
(* RemoteProcess: exit-status resolution and the failure policy.           *)
(***************************************************************************)
\* the assignment made after -1 was turned into None
StoredStatusMapped(status) == IF status = NoExitStatus THEN None ELSE Some(status)

\* _get_exitstatus: 'self.exitstatus = self.returncode = status'
StoredStatus(status) == Some(status)

\* _get_exitstatus: 'if status == -1: status = None; return status'
ReturnedStatus(status) == IF status = NoExitStatus THEN None ELSE Some(status)

\* a policy gate that is always taken
ChecksAlways(me) == TRUE

\* _raise_for_status: 'if self.check_status:'
Checks(me) == me.check_status

\* a report looked for whether or not a path was given
HasReportAlways(me) == TRUE

\* _raise_for_status: 'if self.unittest_xml:'
HasReport(me) == me.unittest_xml # ""

\* _raise_for_status: the scan of the report is reached
ScanInvoked(me, rc) ==
    /\ Checks(me)
    /\ rc \notin {None, Some(NoExitStatus)}
    /\ rc # Some(0)
    /\ HasReport(me)

\* the liveness test without 'not transport.is_active()'
LooksLostAbsentOnly(tr) == tr = "absent"

\* 'transport is None or not transport.is_active()'
LooksLost(tr) == tr = "absent" \/ tr = "inactive"

\* 'if error_msg:'
Truthy(msg) == msg # None /\ msg # Some(<<>>)

\* an except clause that keeps the exception's text as the message
NotSwallowed(r) ==
    IF r.raised THEN Some(<<"Somthing went wrong while searching for error in XML file">>)
    ELSE r.val

\* the try/except around find_unittest_error: error_msg stays None when the
\* scan raises
Swallowed(r) == IF r.raised THEN None ELSE r.val

ErrorMsg(me, fs) == Swallowed(find_unittest_error(me.unittest_xml, fs))

\* a test that lets exit code 1 pass
FailsAboveOne(rc) == rc \notin {Some(0), Some(1)}

\* 'if self.returncode != 0'
Fails(rc) == rc # Some(0)

\* _raise_for_status with returncode rc, transport state tr and remote files fs:
\* the exception it raises, or NoError
raise_for_status(me, rc, tr, fs) ==
    IF ~Checks(me) THEN NoError
    ELSE IF rc \in {None, Some(NoExitStatus)}
         THEN IF LooksLost(tr)
              THEN ConnectionLostError(me.command, Some(me.hostname))
              ELSE CommandCrashedError(me.command)
    ELSE IF Fails(rc)
         THEN IF HasReport(me) /\ Truthy(ErrorMsg(me, fs))
              THEN UnitTestError(rc, Some(me.hostname), Some(me.label),
                                 ErrorMsg(me, fs)[1])
              ELSE CommandFailedError(me.command, rc, Some(me.hostname),
                                      Some(me.label))
    ELSE NoError

NoFiles == [ls_ok |-> TRUE, files |-> <<>>]

\* the remote files _raise_for_status can meet
FilesMet(me, rc) ==
    IF ScanInvoked(me, rc) THEN RemoteFS(me.unittest_xml) ELSE {NoFiles}

\* the scan a call of _raise_for_status made
ScanOf(me, rc, fs) ==
    IF ScanInvoked(me, rc)
    THEN LET r == find_unittest_error(me.unittest_xml, fs)
         IN  [ran |-> TRUE, raised |-> r.raised, val |-> r.val]
    ELSE NoScan

(***************************************************************************)
(* How a call ends: its outcome is recorded; a wait() that run() made ends *)
(* run(), one that the module-level wait() made moves that on.             *)
(***************************************************************************)
BatchAfter(op, fin, err) ==
    IF op = "finished"
    THEN [batch EXCEPT !.k = @ + 1,
                       !.not_ready = IF fin
                                     THEN SelectSeq(@, LAMBDA g : g # call.h)
                                     ELSE @]
    ELSE IF err # NoError
    THEN [batch EXCEPT !.pc = "raised", !.err = err]
    ELSE [batch EXCEPT !.k = @ + 1]

Complete(h, ret, fin, err, scan) ==
    /\ res' = [res EXCEPT ![h] = Outcome(call.op, ret, fin, err, scan)]
    /\ call' = Idle
    /\ rpc' = IF call.from = "run"
              THEN [rpc EXCEPT ![h] = IF err = NoError THEN "returned" ELSE "raised"]
              ELSE rpc
    /\ batch' = IF call.from = "batch" THEN BatchAfter(call.op, fin, err) ELSE batch

Calling(op, h, pc, from) ==
    [op |-> op, h |-> h, pc |-> pc, i |-> 1, status |-> None, from |-> from]

\* the end of run(): 'if wait: r.wait()', 'return r'
RunReturn(h) ==
    /\ rpc[h] = "run_wait"
    /\ call = Idle
    /\ IF self[h].wait
       THEN /\ call' = Calling("wait", h, "recv", "run")
            /\ UNCHANGED rpc
       ELSE /\ rpc' = [rpc EXCEPT ![h] = "returned"]
            /\ UNCHANGED call
    /\ UNCHANGED <<self, transport, chan, greenlets, returncode, res, ncalls, batch, scanner, pump>>

\* the caller holds the handle run() returned and calls a method of it; res
\* holds the outcome of the call in progress or last ended, so it is cleared
CanCall(h) ==
    /\ rpc[h] = "returned"
    /\ call = Idle
    /\ batch.pc = "off"
    /\ ncalls < MaxCalls

\* r.wait(): enters _get_exitstatus
WaitCall(h) ==
    /\ CanCall(h)
    /\ call' = Calling("wait", h, "recv", "caller")
    /\ ncalls' = ncalls + 1
    /\ res' = [res EXCEPT ![h] = NoOutcome]
    /\ UNCHANGED <<self, rpc, transport, chan, greenlets, returncode, batch, scanner, pump>>

\* r.poll() and r.finished: enter gevent.wait(self.greenlets, timeout=0.1)
PollCall(h) ==
    /\ CanCall(h)
    /\ call' = Calling("poll", h, "gwait", "caller")
    /\ ncalls' = ncalls + 1
    /\ res' = [res EXCEPT ![h] = NoOutcome]
    /\ UNCHANGED <<self, rpc, transport, chan, greenlets, returncode, batch, scanner, pump>>

FinishedCall(h) ==
    /\ CanCall(h)
    /\ call' = Calling("finished", h, "gwait", "caller")
    /\ ncalls' = ncalls + 1
    /\ res' = [res EXCEPT ![h] = NoOutcome]
    /\ UNCHANGED <<self, rpc, transport, chan, greenlets, returncode, batch, scanner, pump>>

\* finished resolving without looking at ready
FinishedResolvesAlways(ready) == TRUE

\* finished: 'if ready: self._get_exitstatus()'
FinishedResolves(ready) == ready

\* finished, after gevent.wait returned: ready = exit_status_ready()
FinishedCheck ==
    /\ call.op \in {"poll", "finished"}
    /\ call.pc = "gwait"
    /\ IF FinishedResolves(chan[call.h].ready)
       THEN /\ call' = [call EXCEPT !.pc = "recv"]
            /\ UNCHANGED <<rpc, res, batch>>
       ELSE \* finished returns False, poll returns None
            Complete(call.h, None, chan[call.h].ready, NoError, NoScan)
    /\ UNCHANGED <<self, transport, chan, greenlets, returncode, ncalls, scanner, pump>>

\* poll: 'self._raise_for_status(); return self.returncode'
PollReturns(rc) == rc

\* _get_exitstatus: recv_exit_status() blocks until the channel has the exit
\* status; then wait() goes on to its pumps, finished returns ready, and
\* poll() applies _raise_for_status
GetExitstatus ==
    /\ call.pc = "recv"
    /\ chan[call.h].ready
    /\ LET h      == call.h
           status == chan[h].exit_status
           rc     == StoredStatus(status)
       IN  /\ returncode' = [returncode EXCEPT ![h] = rc]
           /\ \E fs \in (IF call.op = "poll" THEN FilesMet(self[h], rc) ELSE {NoFiles}) :
                /\ chan' = [chan EXCEPT
                              ![h].reads = @ + 1,
                              ![h].scans = IF call.op = "poll" /\ ScanInvoked(self[h], rc)
                                           THEN @ + 1 ELSE @]
                /\ IF call.op = "wait"
                   THEN /\ call' = [call EXCEPT !.pc = "join",
                                                !.status = ReturnedStatus(status)]
                        /\ UNCHANGED <<rpc, res, batch>>
                   ELSE IF call.op = "finished"
                   THEN Complete(h, None, TRUE, NoError, NoScan)
                   ELSE LET err == raise_for_status(self[h], rc, transport[h], fs)
                        IN  Complete(h, IF err = NoError THEN PollReturns(rc) ELSE None,
                                     TRUE, err, ScanOf(self[h], rc, fs))
    /\ UNCHANGED <<self, transport, greenlets, ncalls, scanner, pump>>

\* wait(): 'greenlet.get(block=True, timeout=60)' on pump i re-raises what the
\* pump raised, returns when the pump ended, and on gevent.Timeout the pump is
\* killed without waiting for it
JoinRaisesOnTimeout(st) == st \in {"failed", "running"}

JoinRaises(st) == st = "failed"

\* a join that leaves a pump it timed out on alone
JoinKillsNever(st) == FALSE

JoinKills(st) == st = "running"

WaitJoin ==
    /\ call.op = "wait"
    /\ call.pc = "join"
    /\ call.i <= Len(greenlets[call.h])
    /\ LET h  == call.h
           st == greenlets[h][call.i].st
       IN  IF JoinRaises(st)
           THEN /\ Complete(h, None, FALSE, PumpError(greenlets[h][call.i].stream),
                            NoScan)
                /\ UNCHANGED greenlets
           ELSE /\ greenlets' = IF JoinKills(st)
                                THEN [greenlets EXCEPT ![h][call.i].st = "killed"]
                                ELSE greenlets
                /\ call' = [call EXCEPT !.i = @ + 1]
                /\ UNCHANGED <<rpc, res, batch>>
    /\ UNCHANGED <<self, transport, chan, returncode, ncalls, scanner, pump>>

\* wait(): 'return status'
WaitReturns(status, rc) == status

\* wait() after its pumps: 'self._raise_for_status(); return status'
WaitPolicy ==
    /\ call.op = "wait"
    /\ call.pc = "join"
    /\ call.i > Len(greenlets[call.h])
    /\ LET h  == call.h
           rc == returncode[h]
       IN  \E fs \in FilesMet(self[h], rc) :
              LET err == raise_for_status(self[h], rc, transport[h], fs)
              IN  /\ chan' = [chan EXCEPT
                                ![h].scans = IF ScanInvoked(self[h], rc)
                                             THEN @ + 1 ELSE @]
                  /\ Complete(h, IF err = NoError
                                 THEN WaitReturns(call.status, rc) ELSE None,
                              FALSE, err, ScanOf(self[h], rc, fs))
    /\ UNCHANGED <<self, transport, greenlets, returncode, ncalls, scanner, pump>>

(***************************************************************************)
(* One caller working with one handle.                                     *)
(***************************************************************************)
Next ==
    \/ \E h \in Solo, check_status \in BOOLEAN, unittest_xml \in XmlPaths,
          stdin \in StreamArgs, stdout \in StreamArgs, stderr \in StreamArgs,
          wait \in BOOLEAN :
          Run(h, check_status, unittest_xml, stdin, stdout, stderr, wait, NameArg(h))
    \/ \E h \in Solo : Execute(h)
    \/ \E h \in Solo : SetupStdin(h)
    \/ \E h \in Solo : SetupStderr(h)
    \/ \E h \in Solo : SetupStdout(h)
    \/ \E h \in Solo : RunReturn(h)
    \/ \E h \in Solo : WaitCall(h)
    \/ \E h \in Solo : PollCall(h)
    \/ \E h \in Solo : FinishedCall(h)
    \/ FinishedCheck
    \/ GetExitstatus
    \/ WaitJoin
    \/ WaitPolicy
    \/ \E h \in Solo : ProcessExits(h)
    \/ \E h \in Solo : TransportDown(h)
    \/ \E h \in Solo, i \in 1..3 : PumpEnds(h, i)

Spec == Init /\ [][Next]_vars

(***************************************************************************)
(* The same caller calling wait() only, with the scheduling the code       *)
(* relies on: recv_exit_status() returns once the channel has the exit     *)
(* status, Greenlet.get(timeout=60) returns or times out, and the          *)
(* straight-line end of wait() runs.                                       *)
(***************************************************************************)
NextWait ==
    \/ \E h \in Solo, check_status \in BOOLEAN, unittest_xml \in XmlPaths,
          stdin \in StreamArgs, stdout \in StreamArgs, stderr \in StreamArgs,
          wait \in BOOLEAN :
          Run(h, check_status, unittest_xml, stdin, stdout, stderr, wait, NameArg(h))
    \/ \E h \in Solo : Execute(h)
    \/ \E h \in Solo : SetupStdin(h)
    \/ \E h \in Solo : SetupStderr(h)
    \/ \E h \in Solo : SetupStdout(h)
    \/ \E h \in Solo : RunReturn(h)
    \/ \E h \in Solo : WaitCall(h)
    \/ GetExitstatus
    \/ WaitJoin
    \/ WaitPolicy
    \/ \E h \in Solo : ProcessExits(h)
    \/ \E h \in Solo : TransportDown(h)
    \/ \E h \in Solo, i \in 1..3 : PumpEnds(h, i)

FairSpec ==
    /\ Init
    /\ [][NextWait]_vars
    /\ WF_vars(GetExitstatus)
    /\ WF_vars(WaitJoin)
    /\ WF_vars(WaitPolicy)


(***************************************************************************)
(* wait(processes, timeout): lines 535-555.  processes is the list of all  *)
(* handles, each returned by run(wait=False).                              *)
(***************************************************************************)
\* the seconds of the sleep that safe_while makes between tries
PollSleep == 6

\* 'tries=(timeout // 6)'
PollTries(timeout) == timeout \div PollSleep

\* timeout=None (0 here), a positive timeout below one try, and whole tries
Timeouts == {0, PollSleep - 1} \cup {PollSleep * n : n \in 1..MaxTries}

\* 'if timeout and timeout > 0'
PollsFirst(timeout) == timeout # 0 /\ timeout > 0

processes == [h \in 1..NumProcs |-> h]

\* teuthology.contextutil.safe_while is not among the sources: after the spec
\* (4.4), check_time() lets the loop go on while tries are left and ends the
\* polling phase, without an error, when they are used up
safe_while_exhausted(tries) == tries = 0

\* a blocking phase over the handles the polling phase saw finish
BlockingFinishedOnly(procs, not_ready) ==
    SelectSeq(procs, LAMBDA g : \A j \in 1..Len(not_ready) : not_ready[j] # g)

\* 'for proc in processes: proc.wait()': the handles the blocking phase
\* waits on, given those the polling phase left unfinished
BlockingList(procs, not_ready) == procs

BatchCall(timeout) ==
    /\ batch.pc = "off"
    /\ call = Idle
    /\ \A h \in Procs : rpc[h] = "returned"
    /\ batch' = IF PollsFirst(timeout)
                THEN [batch EXCEPT !.pc = "while", !.tries = PollTries(timeout),
                                   !.not_ready = processes]
                ELSE [batch EXCEPT !.pc = "block", !.k = 1,
                                   !.snap = BlockingList(processes, <<>>)]
    /\ UNCHANGED <<self, rpc, transport, chan, greenlets, returncode, call, res, ncalls, scanner, pump>>

\* 'while len(not_ready) > 0: check_time()'
BatchWhile ==
    /\ batch.pc = "while"
    /\ batch' = IF Len(batch.not_ready) = 0
                THEN [batch EXCEPT !.pc = "block", !.k = 1,
                                   !.snap = BlockingList(processes, batch.not_ready)]
                ELSE IF safe_while_exhausted(batch.tries)
                THEN [batch EXCEPT !.pc = "block", !.k = 1, !.exhausted = TRUE,
                                   !.snap = BlockingList(processes, batch.not_ready)]
                ELSE [batch EXCEPT !.pc = "for", !.tries = @ - 1, !.k = 1,
                                   !.snap = batch.not_ready]
    /\ UNCHANGED <<self, rpc, transport, chan, greenlets, returncode, call, res, ncalls, scanner, pump>>

\* 'for proc in list(not_ready): if proc.finished: not_ready.remove(proc)'
BatchFor ==
    /\ batch.pc = "for"
    /\ call = Idle
    /\ IF batch.k > Len(batch.snap)
       THEN /\ batch' = [batch EXCEPT !.pc = "while"]
            /\ UNCHANGED <<call, res>>
       ELSE /\ call' = Calling("finished", batch.snap[batch.k], "gwait", "batch")
            /\ res' = [res EXCEPT ![batch.snap[batch.k]] = NoOutcome]
            /\ UNCHANGED batch
    /\ UNCHANGED <<self, rpc, transport, chan, greenlets, returncode, ncalls, scanner, pump>>

\* 'for proc in processes: proc.wait()'
BatchBlock ==
    /\ batch.pc = "block"
    /\ call = Idle
    /\ IF batch.k > Len(batch.snap)
       THEN /\ batch' = [batch EXCEPT !.pc = "done"]
            /\ UNCHANGED <<call, res>>
       ELSE /\ call' = Calling("wait", batch.snap[batch.k], "recv", "batch")
            /\ res' = [res EXCEPT ![batch.snap[batch.k]] = NoOutcome]
            /\ batch' = [batch EXCEPT !.waited = Append(@, batch.snap[batch.k])]
    /\ UNCHANGED <<self, rpc, transport, chan, greenlets, returncode, ncalls, scanner, pump>>

\* the handles of a batch: run(wait=False, stdin=PIPE, stdout=PIPE, stderr=PIPE)
\* returned each, so no handle has a pump, and the transports stay up
InitBatch ==
    /\ self \in {[h \in Procs |->
                      SelfOf(c[h], "", PIPE, PIPE, PIPE, FALSE, NameArg(h),
                             Hostname(NameArg(h), PeerHost(h)), h)] :
                  c \in [Procs -> BOOLEAN]}
    /\ rpc = [h \in Procs |-> "returned"]
    /\ transport = [h \in Procs |-> "active"]
    /\ chan = [h \in Procs |-> [NewChan EXCEPT !.issued = TRUE]]
    /\ greenlets = [h \in Procs |-> <<>>]
    /\ returncode = [h \in Procs |-> None]
    /\ call = Idle
    /\ res = [h \in Procs |-> NoOutcome]
    /\ ncalls = 0
    /\ batch = BatchOff
    /\ scanner = ScannerOff
    /\ pump = PumpOff

NextBatch ==
    \/ \E timeout \in Timeouts : BatchCall(timeout)
    \/ BatchWhile
    \/ BatchFor
    \/ BatchBlock
    \/ FinishedCheck
    \/ GetExitstatus
    \/ WaitPolicy
    \/ \E h \in Procs : ProcessExits(h)

BatchSpec == InitBatch /\ [][NextBatch]_vars


(***************************************************************************)
(* teuthology.util.xml_scanner: UnitTestScanner.get_error_msg over remote  *)
(* report documents.  A document is a read (st as for the reads above)     *)
(* with the root's failures and errors attributes, each optional.          *)
(***************************************************************************)
\* number of report files a scanned directory holds
MaxReports == 3

\* the variables of the handles and of the module-level wait()
runvars == <<self, rpc, transport, chan, greenlets, returncode, call, res, ncalls, batch>>

\* nothing was run: the handles are as Init leaves them, transports up
NoRuns ==
    /\ self = [h \in Procs |-> Blank(h)]
    /\ rpc = [h \in Procs |-> "new"]
    /\ transport = [h \in Procs |-> "active"]
    /\ chan = [h \in Procs |-> NewChan]
    /\ greenlets = [h \in Procs |-> <<>>]
    /\ returncode = [h \in Procs |-> None]
    /\ call = Idle
    /\ res = [h \in Procs |-> NoOutcome]
    /\ ncalls = 0
    /\ batch = BatchOff

Doc(st, failures, errors, cases) ==
    [st |-> st, failures |-> failures, errors |-> errors, cases |-> cases]

\* a failure whose message starts with the marker
TcFailureCaptured ==
    Testcase(Some("t3"), Some("s2"),
             <<Child("failure", Some(Marker \o <<"log">>))>>)

\* the documents a report file can hold: unreadable ones, reports without a
\* failed testcase, reports with failed testcases whose counters say so or
\* are missing, and a report whose counters are zero over a failed testcase
ScanDocs ==
    { Doc("exec_error", None, None, <<>>),
      Doc("no_stdout", None, None, <<>>),
      Doc("malformed", None, None, <<>>),
      Doc("ok", Some(0), Some(0), <<TcPass>>),
      Doc("ok", None, None, <<TcPass, TcPass>>),
      Doc("ok", Some(1), Some(0), <<TcPass, TcFailure>>),
      Doc("ok", Some(1), Some(1), <<TcFailurePlain, TcPass, TcError>>),
      Doc("ok", None, None, <<TcFailureCaptured>>),
      Doc("ok", Some(0), Some(0), <<TcPass, TcFailure>>) }

\* a get_error without the look at the counters
CountersZeroNever(doc) == FALSE

\* get_error: 'int(root.get("failures", -1)) == 0 and int(root.get("errors", -1)) == 0'
CountersZero(doc) == GetOr(doc.failures, -1) = 0 /\ GetOr(doc.errors, -1) = 0

\* the failure and error children of a testcase, in document order
Faults(tc) == SelectSeq(tc.children, IsFault)

\* get_error: the entry appended to error_data[testcase_suitename]
FaultEntry(tc, child) ==
    [suite |-> GetOr(tc.classname, "suite-name"),
     kind |-> child.tag,
     testcase |-> GetOr(tc.name, "test-name"),
     message |-> GetOr(child.message, <<"No message found in xml output, check logs.">>)]

RECURSIVE FaultEntries(_)
\* the entries of all failed testcases, in the order the loops meet them
FaultEntries(failed) ==
    IF failed = <<>> THEN <<>>
    ELSE LET tc == Head(failed)
         IN  [i \in 1..Len(Faults(tc)) |-> FaultEntry(tc, Faults(tc)[i])]
                 \o FaultEntries(Tail(failed))

\* get_error: 'short_reason = reason[:reason.find('begin captured')]'
ShortReason(reason) == SliceTo(reason, Find(reason, Marker))

\* get_error: error_txt, made of the first entry
ErrorTxt(e) ==
    <<Upper(e.kind), ": Test '", e.testcase, "' of '", e.suite, "'. Reason: ">>
        \o ShortReason(e.message) \o <<".">>

\* dict(error_data): the entries grouped by suite name
FailedTestsuites(entries) ==
    [su \in {entries[i].suite : i \in 1..Len(entries)} |->
        SelectSeq(entries, LAMBDA e : e.suite = su)]

\* UnitTestScanner.get_error on a parsed document: <<error_txt, error_data>>
get_error(doc) ==
    IF CountersZero(doc) THEN <<None, None>>
    ELSE LET failed_testcases == FailedTestcases(doc.cases)
             entries          == FaultEntries(failed_testcases)
         IN  IF Len(failed_testcases) = 0 THEN <<None, None>>
             ELSE <<Some(ErrorTxt(entries[1])),
                    Some([failed_testsuites |-> FailedTestsuites(entries),
                          num_of_failures |-> Len(failed_testcases)])>>

\* scan_file: 'error_data["xml_file"] = path'
Named(path, error_data) == [data |-> error_data, xml_file |-> path]

\* XMLScanner.scan_file(path) on a scanner with yaml_data: whether it raised,
\* the error_txt it returned and the yaml_data it leaves
scan_file(path, doc, yaml_data) ==
    IF path = "" THEN [raised |-> FALSE, val |-> None, yaml_data |-> yaml_data]
    ELSE IF doc.st \in {"exec_error", "malformed"}
         THEN [raised |-> TRUE, val |-> None, yaml_data |-> yaml_data]
    ELSE IF doc.st = "no_stdout"
         THEN [raised |-> FALSE, val |-> None, yaml_data |-> yaml_data]
    ELSE LET r == get_error(doc)
         IN  [raised |-> FALSE, val |-> r[1],
              yaml_data |-> IF r[2] # None
                            THEN Append(yaml_data, Named(path, r[2][1]))
                            ELSE yaml_data]

\* the name of the i-th file of the scanned directory
ReportPath(i) == <<"dir/", i, ".xml">>

\* 'ls -d <dir>*.<ext>' read and split at "\n": the files and, after the last
\* newline, the empty string
Listing(docs) ==
    [i \in 1..(Len(docs) + 1) |->
        IF i <= Len(docs) THEN Entry(ReportPath(i), docs[i])
        ELSE Entry("", Doc("ok", None, None, <<>>))]

\* a scanner before get_error_msg(xml_path): yaml_data is empty from __init__;
\* ls_ok, files: what the client will answer.  Of the call in progress or last
\* ended: wrote (write_logs went to the remote document), write_failed (and
\* raised inside its try), caught (get_error_msg caught an exception).  Over
\* the calls: rets (what each returned), handed (the yaml_data each went to
\* write, None if it wrote nothing), stored (the remote document)
NewScanner(xml_path, ls_ok, files) ==
    [pc |-> "new", xml_path |-> xml_path, ls_ok |-> ls_ok, files |-> files,
     k |-> 0, errors |-> <<>>, yaml_data |-> <<>>, ret |-> None,
     caught |-> FALSE, wrote |-> FALSE, write_failed |-> FALSE,
     rets |-> <<>>, handed |-> <<>>, stored |-> None]

ScanInit ==
    /\ NoRuns
    /\ pump = PumpOff
    /\ scanner \in
          {NewScanner("dir/", FALSE, <<>>)}
          \cup {NewScanner("dir/", TRUE, Listing(docs)) :
                   docs \in SeqsUpTo(ScanDocs, MaxReports)}
          \cup {NewScanner("report.xml", TRUE, <<Entry("report.xml", d)>>) :
                   d \in ScanDocs}

\* write_logs: 'if self.yaml_data:'
WriteLogs(yaml_data) == yaml_data # <<>>

\* get_error_msg returns val
Returns(sc, val) ==
    [sc EXCEPT !.pc = "done", !.ret = val, !.rets = Append(@, val),
               !.handed = Append(@, IF sc.wrote THEN Some(sc.yaml_data) ELSE None)]

\* get_error_msg: 'except Exception' logs and the call returns None
ScanCaught(sc) == Returns([sc EXCEPT !.caught = TRUE], None)

\* a write_logs without its try: the exception reaches get_error_msg
WriteFailureRaised(sc) ==
    ScanCaught([sc EXCEPT !.wrote = TRUE, !.write_failed = TRUE])

\* write_logs: 'except Exception as exc: log.exception(exc)'
WriteFailure(sc) == [sc EXCEPT !.wrote = TRUE, !.write_failed = TRUE]

\* write_logs, with open_sftp, sftp.open and yaml.safe_dump going well (ok)
\* or one of them raising
write_logs(sc, ok) ==
    IF WriteLogs(sc.yaml_data)
    THEN IF ok THEN [sc EXCEPT !.wrote = TRUE, !.stored = Some(sc.yaml_data)]
         ELSE WriteFailure(sc)
    ELSE sc

\* the end of get_error_msg after write_logs: its return, unless an exception
\* left write_logs and was caught
AfterWrite(sc, val) == IF sc.caught THEN sc ELSE Returns(sc, val)

\* a pick of the last of the errors
LastError(errors) == errors[Len(errors)]

\* get_error_msg: 'return errors[0]'
FirstError(errors) == errors[1]

\* get_error_msg(xml_path) up to the listing of a directory
ScanDir ==
    /\ scanner.pc = "new"
    /\ IsDirPath(scanner.xml_path)
    /\ scanner' = IF scanner.ls_ok
                  THEN [scanner EXCEPT !.pc = "loop", !.k = 1]
                  ELSE ScanCaught(scanner)
    /\ UNCHANGED <<runvars, pump>>

\* scan_all_files_in_dir: 'for fpath in files: error_txt = self.scan_file(fpath)'
ScanLoop ==
    /\ scanner.pc = "loop"
    /\ scanner.k <= Len(scanner.files)
    /\ LET f == scanner.files[scanner.k]
           r == scan_file(f.path, f.read, scanner.yaml_data)
       IN  scanner' =
              IF r.raised THEN ScanCaught(scanner)
              ELSE [scanner EXCEPT
                      !.k = @ + 1,
                      !.yaml_data = r.yaml_data,
                      !.errors = IF Truthy(r.val) THEN Append(@, r.val[1]) ELSE @]
    /\ UNCHANGED <<runvars, pump>>

\* scan_all_files_in_dir: 'self.write_logs(); return errors', and
\* get_error_msg: 'if errors: return errors[0]', else None
ScanDirReturn ==
    /\ scanner.pc = "loop"
    /\ scanner.k > Len(scanner.files)
    /\ \E ok \in BOOLEAN :
          scanner' = AfterWrite(write_logs(scanner, ok),
                                IF scanner.errors # <<>>
                                THEN Some(FirstError(scanner.errors)) ELSE None)
    /\ UNCHANGED <<runvars, pump>>

\* get_error_msg on a file: 'error = self.scan_file(xml_path)',
\* 'self.write_logs()', 'return error'
ScanOne ==
    /\ scanner.pc = "new"
    /\ ~IsDirPath(scanner.xml_path)
    /\ LET f == scanner.files[1]
           r == scan_file(f.path, f.read, scanner.yaml_data)
       IN  IF r.raised THEN scanner' = ScanCaught(scanner)
           ELSE \E ok \in BOOLEAN :
                   scanner' =
                      AfterWrite(write_logs([scanner EXCEPT
                                               !.k = 1, !.yaml_data = r.yaml_data],
                                            ok),
                                 r.val)
    /\ UNCHANGED <<runvars, pump>>

ScanNext == ScanDir \/ ScanLoop \/ ScanDirReturn \/ ScanOne

ScanSpec == ScanInit /\ [][ScanNext]_vars

\* number of get_error_msg calls made on one scanner
MaxScans == 2

\* the same scanner object is asked again, for the same path on the same
\* remote files: the locals of get_error_msg start anew, the object's
\* yaml_data is what the calls before left
ScanAgain ==
    /\ scanner.pc = "done"
    /\ Len(scanner.rets) < MaxScans
    /\ scanner' = [scanner EXCEPT
                     !.pc = "new", !.k = 0, !.errors = <<>>, !.ret = None,
                     !.caught = FALSE, !.wrote = FALSE, !.write_failed = FALSE]
    /\ UNCHANGED <<runvars, pump>>

RescanNext == ScanDir \/ ScanLoop \/ ScanDirReturn \/ ScanOne \/ ScanAgain

RescanSpec == ScanInit /\ [][RescanNext]_vars

(***************************************************************************)
(* The stdin pump: setup_stdin spawns copy_and_close(stream_obj,           *)
(* KludgeFile(stdin)) when stream_obj is not PIPE.                         *)
(***************************************************************************)
\* number of chunks the source of a stdin pump holds at most
MaxData == 3

\* what run(stdin=...) can be given besides PIPE: None, a str, bytes, or a
\* file-like object; data is what it yields, chunk by chunk
StdinSources ==
    {[kind |-> "None", data |-> <<>>]}
    \cup {[kind |-> k, data |-> d] :
             k \in {"str", "bytes", "stream"}, d \in SeqsUpTo({"a", "b"}, MaxData)}

\* the pump at its spawn: nothing written to the remote stdin, which is open,
\* and the channel not shut down for writing
NewPump(src) ==
    [pc |-> "spawned", src |-> src, written |-> <<>>,
     closed |-> FALSE, shut |-> FALSE]

PumpInit ==
    /\ NoRuns
    /\ scanner = ScannerOff
    /\ pump \in {NewPump(src) : src \in StdinSources}

\* copy_and_close: 'if src is not None:' wraps bytes and str and copies
PumpStart ==
    /\ pump.pc = "spawned"
    /\ pump' = [pump EXCEPT !.pc = IF pump.src.kind # "None" THEN "copy" ELSE "close"]
    /\ UNCHANGED <<runvars, scanner>>

\* shutil.copyfileobj: read a chunk, stop at the end of input, else write it;
\* a write to the channel can raise, which ends the pump
PumpCopy ==
    /\ pump.pc = "copy"
    /\ IF Len(pump.written) = Len(pump.src.data)
       THEN pump' = [pump EXCEPT !.pc = "close"]
       ELSE \E ok \in BOOLEAN :
               pump' = IF ok
                       THEN [pump EXCEPT
                               !.written = Append(@, pump.src.data[Len(@) + 1])]
                       ELSE [pump EXCEPT !.pc = "failed"]
    /\ UNCHANGED <<runvars, scanner>>

\* a close that is the wrapped file's alone
ChannelFileClose(f) == [f EXCEPT !.closed = TRUE, !.pc = "done"]

\* KludgeFile.close: 'self._wrapped.close()', with the shutdown to follow
KludgeFileClose(f) == [f EXCEPT !.closed = TRUE, !.pc = "shutdown"]

\* copy_and_close: 'fdst.close()'
PumpClose ==
    /\ pump.pc = "close"
    /\ pump' = KludgeFileClose(pump)
    /\ UNCHANGED <<runvars, scanner>>

\* KludgeFile.close: 'self._wrapped.channel.shutdown_write()'; the pump ends
PumpShutdown ==
    /\ pump.pc = "shutdown"
    /\ pump' = [pump EXCEPT !.shut = TRUE, !.pc = "done"]
    /\ UNCHANGED <<runvars, scanner>>

PumpNext == PumpStart \/ PumpCopy \/ PumpClose \/ PumpShutdown

PumpSpec == PumpInit /\ [][PumpNext]_vars

(***************************************************************************)
(* Properties.                                                             *)
(***************************************************************************)
StatusErrors ==
    {"ConnectionLostError", "CommandCrashedError", "CommandFailedError", "UnitTestError"}

\* the raw exit code the channel reports for h
RawCode(h) == chan[h].exit_status

\* the status a call stands for: the raw code, None for the -1 sentinel
StatusFor(raw) == IF raw = NoExitStatus THEN None ELSE Some(raw)

Ended(h, op) == res[h].op = op

\* the step ends a call of one of ops on h
Ends(h, ops) == res[h].op = "none" /\ res'[h].op \in ops

NoPumpFailed(h) == \A i \in 1..Len(greenlets[h]) : greenlets[h][i].st # "failed"

HasPipe(me) == PIPE \in {me.stdin, me.stdout, me.stderr}

\* the first PIPE stream in the order run() sets the streams up
FirstPipe(me) ==
    IF me.stdin = PIPE THEN "stdin" ELSE IF me.stderr = PIPE THEN "stderr" ELSE "stdout"

IsPrefix(s, t) == Len(s) <= Len(t) /\ SubSeq(t, 1, Len(s)) = s

\* C1: with check_status false, for every raw exit code (0, positive, the -1
\* sentinel) and every transport state, a wait() that ended raised no status
\* error; the handle then records the raw code, and what wait() returned is the
\* resolved status (the raw code, None standing for the sentinel).
C1_UncheckedWaitNoStatusError ==
    \A h \in Procs :
        (Ended(h, "wait") /\ ~self[h].check_status) =>
            /\ res[h].err.kind \notin StatusErrors
            /\ returncode[h] = Some(RawCode(h))
            /\ res[h].err = NoError => res[h].ret = StatusFor(RawCode(h))

C1_Witness ==
    \E h \in Procs :
        /\ Ended(h, "wait") /\ ~self[h].check_status
        /\ res[h].err = NoError
        /\ RawCode(h) = NoExitStatus
        /\ transport[h] = "inactive"

\* C2: a run() with wait=True and stdin, stdout or stderr set to PIPE never
\* reaches r.wait() and never returns the handle: no method call on the handle
\* is ever in progress, recv_exit_status() is never called and no pump is
\* joined or killed; once the command is issued, run() can only end by raising
\* the deadlock RuntimeError, naming the first PIPE stream.
C2_PipeFailsBeforeBlocking ==
    \A h \in Procs :
        (rpc[h] # "new" /\ self[h].wait /\ HasPipe(self[h])) =>
            /\ rpc[h] \notin {"run_wait", "returned"}
            /\ call.h # h
            /\ chan[h].reads = 0
            /\ \A i \in 1..Len(greenlets[h]) : greenlets[h][i].st # "killed"
            /\ (rpc[h] = "raised" /\ chan[h].issued) =>
                   res[h].err = RuntimeError(<<deadlock_warning, FirstPipe(self[h])>>)

C2_Witness ==
    \E h \in Procs :
        /\ rpc[h] = "raised"
        /\ self[h].wait /\ self[h].stdout = PIPE
        /\ self[h].stdin # PIPE /\ self[h].stderr # PIPE
        /\ res[h].err = RuntimeError(<<deadlock_warning, "stdout">>)

\* C3: over any sequence of wait(), poll() and finished calls on one handle,
\* recv_exit_status() is called on the channel at most once.
C3_ExitStatusReadOnce == \A h \in Procs : chan[h].reads <= 1

C5_SentinelByLiveness ==
    [][\A h \in Procs :
          (/\ Ends(h, {"wait", "poll"})
           /\ self[h].check_status
           /\ chan[h].ready /\ RawCode(h) = NoExitStatus
           /\ res'[h].err.kind # "PumpError") =>
              res'[h].err = IF transport[h] \in {"absent", "inactive"}
                            THEN ConnectionLostError(Args(h), Some(self[h].hostname))
                            ELSE CommandCrashedError(Args(h))]_vars

C5_Witness ==
    \E h \in Procs :
        /\ Ended(h, "poll") /\ self[h].check_status
        /\ RawCode(h) = NoExitStatus
        /\ transport[h] = "inactive"
        /\ res[h].err = ConnectionLostError(Args(h), Some(PeerHost(h)))

\* C6: with check_status true and no report path, a wait() that applies the
\* failure policy returns 0 without raising for raw code 0, and for every raw
\* code above 0 raises CommandFailedError with the command, that code, the
\* hostname and the label.
C6_PlainExitCodes ==
    \A h \in Procs :
        (/\ Ended(h, "wait")
         /\ self[h].check_status /\ self[h].unittest_xml = ""
         /\ res[h].err.kind # "PumpError") =>
            /\ RawCode(h) = 0 => res[h].err = NoError /\ res[h].ret = Some(0)
            /\ RawCode(h) > 0 =>
                   res[h].err = CommandFailedError(Args(h), Some(RawCode(h)),
                                                   Some(self[h].hostname), Some(Label(h)))

C6_Witness ==
    \E h \in Procs :
        /\ Ended(h, "wait") /\ self[h].unittest_xml = ""
        /\ RawCode(h) = MaxExit
        /\ res[h].err.kind = "CommandFailedError"
        /\ res[h].err.exitstatus = Some(MaxExit)

\* C7: with check_status true, a positive exit code and a report path, the
\* failure policy scans the report; a scan that returns a non-empty message
\* gives UnitTestError with the exit code, hostname, label and that message; a
\* scan that returns nothing or raises gives plain CommandFailedError.
C7_ReportDecidesError ==
    \A h \in Procs :
        (/\ Ended(h, "wait") \/ (Ended(h, "poll") /\ res[h].fin)
         /\ self[h].check_status /\ self[h].unittest_xml # ""
         /\ RawCode(h) > 0
         /\ res[h].err.kind # "PumpError") =>
            /\ res[h].scan.ran
            /\ res[h].err =
                 IF ~res[h].scan.raised /\ res[h].scan.val \notin {None, Some(<<>>)}
                 THEN UnitTestError(Some(RawCode(h)), Some(self[h].hostname),
                                    Some(Label(h)), res[h].scan.val[1])
                 ELSE CommandFailedError(Args(h), Some(RawCode(h)),
                                         Some(self[h].hostname), Some(Label(h)))

C7_Witness ==
    \E h \in Procs :
        /\ Ended(h, "wait")
        /\ res[h].scan.ran /\ res[h].scan.raised
        /\ res[h].err.kind = "CommandFailedError"

\* C8 as stated: poll() and finished never call recv_exit_status() while the
\* exit status is not ready, and poll() returns a status only when no pump of
\* the handle is still running.
C8_PollWaitsForPumps ==
    /\ (call.op \in {"poll", "finished"} /\ call.pc = "recv") => chan[call.h].ready
    /\ \A h \in Procs :
          (Ended(h, "poll") /\ res[h].err = NoError /\ res[h].ret # None) =>
              \A i \in 1..Len(greenlets[h]) : greenlets[h][i].st # "running"

\* C8 amended: poll() and finished never call recv_exit_status() while the exit
\* status is not ready; a poll() that finds it not ready returns None without
\* reading it, and one that finds it ready returns the recorded status or
\* raises by the failure policy, whatever the pumps are doing.
C8_PollFollowsExitStatus ==
    [][/\ (call'.op \in {"poll", "finished"} /\ call'.pc = "recv") =>
              chan'[call'.h].ready
       /\ \A h \in Procs :
             Ends(h, {"poll"}) =>
                 IF chan[h].ready
                 THEN \/ res'[h].err # NoError
                      \/ res'[h].ret # None /\ res'[h].ret = returncode'[h]
                 ELSE /\ res'[h].err = NoError /\ res'[h].ret = None
                      /\ chan'[h].reads = chan[h].reads]_vars

C8_Witness ==
    \E h \in Procs :
        /\ Ended(h, "poll") /\ res[h].err = NoError /\ res[h].ret # None
        /\ \E i \in 1..Len(greenlets[h]) : greenlets[h][i].st = "running"

\* what the exit status and the failure policy allow a wait() to end with
Decided(h) ==
    LET e == res[h].err
    IN  /\ e.kind # "PumpError"
        /\ ~self[h].check_status => e = NoError
        /\ (self[h].check_status /\ RawCode(h) = 0) => e = NoError
        /\ (self[h].check_status /\ RawCode(h) = NoExitStatus) =>
               e.kind \in {"ConnectionLostError", "CommandCrashedError"}
        /\ (self[h].check_status /\ RawCode(h) > 0) =>
               /\ e.kind \in {"CommandFailedError", "UnitTestError"}
               /\ e.exitstatus = Some(RawCode(h))
        /\ e = NoError => res[h].ret = StatusFor(RawCode(h))

\* C9: a wait() in progress whose exit status is available ends, whatever the
\* pumps do; and when it has ended with no pump having raised, every pump is
\* done or was killed (none is still awaited) and the outcome is the one the
\* exit status and the failure policy decide, killed pumps or not.
C9_WaitEndsDespitePumps ==
    /\ \A h \in Procs :
          (call.op = "wait" /\ call.h = h /\ chan[h].ready) ~> Ended(h, "wait")
    /\ [](\A h \in Procs :
             (Ended(h, "wait") /\ NoPumpFailed(h)) =>
                 /\ Decided(h)
                 /\ \A i \in 1..Len(greenlets[h]) :
                       greenlets[h][i].st \in {"done", "killed"})

C9_Witness ==
    \E h \in Procs :
        /\ Ended(h, "wait") /\ res[h].err = NoError
        /\ Len(greenlets[h]) = 3
        /\ \A i \in 1..Len(greenlets[h]) : greenlets[h][i].st = "killed"

C11_FailureSkipsNoHandle ==
    batch.pc = "raised" =>
        /\ IsPrefix(batch.waited, processes)
        /\ batch.waited # <<>>
        /\ batch.err = res[batch.waited[Len(batch.waited)]].err
        /\ batch.waited = processes

\* C12: a run() that ends without the command issued ended with
\* ConnectionLostError, whether the transport was absent or a socket failure
\* hit the peer lookup or exec_command; and with the transport absent no command
\* is issued and no pump is spawned.
C12_IssueFailureIsConnectionLost ==
    \A h \in Procs :
        /\ (rpc[h] = "raised" /\ ~chan[h].issued) =>
               /\ res[h].err.kind = "ConnectionLostError"
               /\ greenlets[h] = <<>>
        /\ (rpc[h] # "new" /\ transport[h] = "absent" /\ self[h] = Blank(h)) =>
               /\ ~chan[h].issued
               /\ greenlets[h] = <<>>

\* C13: a wait() that returned without raising returned the handle's
\* returncode, for every raw exit code, the -1 sentinel included.
C13_WaitReturnsReturncode ==
    \A h \in Procs :
        (Ended(h, "wait") /\ res[h].err = NoError) => res[h].ret = returncode[h]

\* the streams of the pumps of h, in spawn order
PumpStreams(h) == [i \in 1..Len(greenlets[h]) |-> greenlets[h][i].stream]

\* the streams run() spawns a pump for, in the order it sets them up
Configured(me) ==
    (IF me.stdin # PIPE THEN <<"stdin">> ELSE <<>>)
        \o (IF me.stderr # PIPE THEN <<"stderr">> ELSE <<>>)
        \o (IF me.stdout # PIPE THEN <<"stdout">> ELSE <<>>)

\* C17: within a handle of run() no pump exists before the command is issued,
\* the pumps are started stdin first and the output pumps after it, and every
\* configured pump is started before r.wait() or any later call on the handle
\* begins its blocking exit-status retrieval.
C17_IssueThenPumpsThenWait ==
    \A h \in Procs :
        /\ greenlets[h] # <<>> => chan[h].issued
        /\ rpc[h] \in {"new", "execute", "setup_stdin"} => greenlets[h] = <<>>
        /\ IsPrefix(PumpStreams(h), Configured(self[h]))
        /\ (call.h = h \/ chan[h].reads > 0 \/ rpc[h] \in {"run_wait", "returned"}) =>
               PumpStreams(h) = Configured(self[h])

C17_Witness ==
    \E h \in Procs :
        /\ call.h = h /\ call.op = "wait" /\ call.from = "run" /\ call.pc = "recv"
        /\ chan[h].reads = 0
        /\ PumpStreams(h) = <<"stdin", "stderr", "stdout">>

\* C19: inside wait() the exit status is resolved before the first pump is
\* joined, the pumps are joined or killed one after the other, and the failure
\* policy comes last: when wait() returned or raised a status error, every pump
\* of the handle has ended or was killed.
C19_PolicyAfterPumps ==
    \A h \in Procs :
        /\ (call.h = h /\ call.op = "wait" /\ call.pc = "join") =>
               /\ returncode[h] # None /\ chan[h].reads > 0
               /\ res[h].op = "none"
               /\ \A j \in 1..Len(greenlets[h]) :
                     j < call.i => greenlets[h][j].st \in {"done", "killed"}
        /\ (Ended(h, "wait") /\ res[h].err.kind \in StatusErrors \cup {"none"}) =>
               \A i \in 1..Len(greenlets[h]) : greenlets[h][i].st \in {"done", "killed"}

C19_Witness ==
    \E h \in Procs :
        /\ Ended(h, "wait") /\ res[h].err.kind = "CommandFailedError"
        /\ \E i \in 1..Len(greenlets[h]) : greenlets[h][i].st = "killed"
        /\ \E i \in 1..Len(greenlets[h]) : greenlets[h][i].st = "done"

\* C20: find_unittest_error is called for a handle only when check_status is
\* true, the raw exit code is above 0 and a report path is set; with exit code
\* 0, the -1 sentinel, check_status false or no path, no wait() or poll() calls
\* it.
C20_ScanOnlyOnCheckedFailure ==
    \A h \in Procs :
        (chan[h].scans > 0 \/ res[h].scan.ran) =>
            /\ self[h].check_status
            /\ chan[h].ready /\ RawCode(h) > 0
            /\ self[h].unittest_xml # ""

C20_Witness ==
    \E h \in Procs :
        /\ Ended(h, "wait") /\ self[h].check_status /\ self[h].unittest_xml # ""
        /\ RawCode(h) = NoExitStatus
        /\ res[h].err.kind = "CommandCrashedError"
        /\ chan[h].scans = 0


\* a message cut at the first occurrence of the marker, whole without it
CutAtMarker(m) ==
    IF Find(m, Marker) = -1 THEN m ELSE SubSeq(m, 1, Find(m, Marker))

\* the first failure or error of a document with a failed testcase
FirstEntry(doc) == FaultEntries(FailedTestcases(doc.cases))[1]

\* the summary of a document with its reason cut at the marker
SummaryCut(doc) ==
    LET e == FirstEntry(doc)
    IN  <<Upper(e.kind), ": Test '", e.testcase, "' of '", e.suite, "'. Reason: ">>
            \o CutAtMarker(e.message) \o <<".">>

\* C14: the reason in the summary of the first failed testcase is its message
\* cut at the first 'begin captured', and the whole message when the marker is
\* not in it: every summary a finished scan of a file returned is the summary
\* with the reason cut so.
C14_ReasonCutAtMarker ==
    (scanner.pc = "done" /\ ~scanner.caught /\ ~IsDirPath(scanner.xml_path)
        /\ scanner.ret # None) =>
        scanner.ret[1] = SummaryCut(scanner.files[1].read)

\* both counters are there and are zero
ZeroCounters(doc) == doc.st = "ok" /\ doc.failures = Some(0) /\ doc.errors = Some(0)

\* C15: for a document whose failures and errors counters are both zero,
\* get_error returns (None, None) whatever its testcases are, and a scan of
\* the file that holds it returns no message for it and records nothing under
\* its name.
C15_ZeroCountersNoFailure ==
    \A i \in 1..Len(scanner.files) :
        ZeroCounters(scanner.files[i].read) =>
            /\ get_error(scanner.files[i].read) = <<None, None>>
            /\ \A y \in 1..Len(scanner.yaml_data) :
                  scanner.yaml_data[y].xml_file # scanner.files[i].path
            /\ (scanner.pc = "done" /\ ~IsDirPath(scanner.xml_path)) =>
                   scanner.ret = None

C15_Witness ==
    /\ scanner.pc = "done" /\ ~scanner.caught
    /\ IsDirPath(scanner.xml_path)
    /\ Len(scanner.files) = 3
    /\ ZeroCounters(scanner.files[1].read)
    /\ FailedTestcases(scanner.files[1].read.cases) # <<>>
    /\ Len(scanner.yaml_data) = 1
    /\ scanner.yaml_data[1].xml_file = scanner.files[2].path

\* a report file that contains failures: a readable document with a failed
\* testcase whose counters are not both zero (C15)
ContainsFailures(f) ==
    /\ f.path # ""
    /\ f.read.st = "ok"
    /\ ~ZeroCounters(f.read)
    /\ FailedTestcases(f.read.cases) # <<>>

Failing == {i \in 1..Len(scanner.files) : ContainsFailures(scanner.files[i])}

\* C16: a scan of a directory whose files could all be read returns the
\* message of the first file, in listing order, that contains failures (None
\* when there is none), and yaml_data holds one entry for each file that
\* contains failures, in listing order, and no other entry.
C16_FirstMessageAllRecords ==
    (scanner.pc = "done" /\ IsDirPath(scanner.xml_path) /\ ~scanner.caught) =>
        /\ scanner.ret =
              IF Failing = {} THEN None
              ELSE get_error(scanner.files[CHOOSE i \in Failing :
                                              \A j \in Failing : i <= j].read)[1]
        /\ Len(scanner.yaml_data) = Cardinality(Failing)
        /\ \A i \in Failing :
              \E y \in 1..Len(scanner.yaml_data) :
                  /\ scanner.yaml_data[y].xml_file = scanner.files[i].path
                  /\ scanner.yaml_data[y].data = get_error(scanner.files[i].read)[2][1]
                  /\ y = Cardinality({j \in Failing : j <= i})
        /\ scanner.wrote = (Failing # {})

C16_Witness ==
    /\ scanner.pc = "done" /\ IsDirPath(scanner.xml_path) /\ ~scanner.caught
    /\ Len(scanner.files) = 4
    /\ Failing = {2}
    /\ scanner.ret = get_error(scanner.files[2].read)[1]
    /\ Len(scanner.yaml_data) = 1
    /\ Cardinality(DOMAIN scanner.yaml_data[1].data.failed_testsuites) = 1


\* C18: a stdin pump for None, a str, bytes or a stream closes the remote stdin
\* only after it copied its whole source, shuts the channel down for writing
\* only after that close, and has done both whenever it completed.
C18_CloseThenShutdown ==
    /\ pump.pc \in {"spawned", "copy", "close"} => ~pump.closed /\ ~pump.shut
    /\ pump.closed => pump.written = pump.src.data
    /\ pump.shut => pump.closed
    /\ pump.pc = "done" => pump.closed /\ pump.shut
    /\ pump.pc = "failed" => ~pump.closed /\ ~pump.shut

C18_Witness ==
    /\ pump.pc = "done"
    /\ pump.src.kind = "str"
    /\ Len(pump.src.data) = MaxData
    /\ pump.written = pump.src.data
    /\ pump.closed /\ pump.shut


\* C23: when run() ended with the deadlock RuntimeError, no command was issued
\* on the channel and the handle has no pump, whichever of stdin, stderr and
\* stdout is the PIPE stream.
C23_DeadlockErrorLeavesNothing ==
    \A h \in Procs :
        (rpc[h] = "raised" /\ res[h].err.kind = "RuntimeError") =>
            /\ ~chan[h].issued
            /\ greenlets[h] = <<>>


\* what a scan returns going by the remote files alone: for a directory the
\* message of the first file that contains failures, for a file its message
ExpectedRet ==
    IF IsDirPath(scanner.xml_path)
    THEN IF Failing = {} THEN None
         ELSE get_error(scanner.files[CHOOSE i \in Failing :
                                         \A j \in Failing : i <= j].read)[1]
    ELSE IF scanner.files[1].read.st = "ok"
         THEN get_error(scanner.files[1].read)[1]
         ELSE None

\* the scan met something it could not list, read or parse
Unreadable ==
    \/ ~scanner.ls_ok
    \/ \E i \in 1..Len(scanner.files) :
          scanner.files[i].read.st \in {"exec_error", "malformed"}

\* C21: two get_error_msg calls on one scanner for the same failing report
\* return the same message and hand the document writer the same record; no
\* record of the first call is in what the second hands over.
C21_RecordRebuiltPerScan ==
    (scanner.pc = "done" /\ Len(scanner.rets) >= 2) =>
        /\ scanner.rets[2] = scanner.rets[1]
        /\ scanner.handed[2] = scanner.handed[1]

\* C22: a write of the remote document that fails is not raised: the call is
\* not cut short by it and returns what the remote files alone decide, the
\* same as when the write went well; and nothing is written when yaml_data is
\* empty.
C22_WriteIsBestEffort ==
    /\ (scanner.pc = "done" /\ ~scanner.caught) => scanner.ret = ExpectedRet
    /\ scanner.write_failed =>
           scanner.pc = "done" /\ ~scanner.caught /\ scanner.stored = None
    /\ scanner.caught => Unreadable /\ ~scanner.wrote
    /\ scanner.wrote => scanner.yaml_data # <<>>
    /\ scanner.yaml_data = <<>> => scanner.stored = None /\ ~scanner.write_failed

C22_Witness ==
    /\ scanner.pc = "done" /\ ~scanner.caught
    /\ scanner.write_failed
    /\ IsDirPath(scanner.xml_path)
    /\ scanner.ret # None /\ scanner.ret = ExpectedRet


====
